---- MODULE Spec2Model ----
(***************************************************************************)
(* Model of one /v4/listen transcription session of taya-backend.          *)
(*                                                                         *)
(* Two handlers serve /v4/listen: the Deepgram-backed websocket_transcribe *)
(* of app_noauth.py and the mock websocket_transcribe of railway_noauth.py.*)
(* The handler is a coroutine; pc is its position.  Every position except  *)
(* "finish" is an await, where the event loop may run the segment send     *)
(* tasks spawned by stream_transcript and the backend callback.  The       *)
(* speech adapter (utils.stt.streaming) is not part of the sources; its    *)
(* open/send/finish outcomes are modelled from the specification.          *)
(*                                                                         *)
(* Four further specifications share the module.  SpecIds follows the      *)
(* identifiers of several /v4/listen sessions served at once.  SpecDiscard *)
(* applies should_discard_conversation of standalone_ai.py to bounded      *)
(* transcripts, SpecConv runs POST /v1/conversations requests against      *)
(* CONVERSATIONS_STORAGE, and SpecAssemble runs the word-level segment     *)
(* assembly of transcribe_audio.  Strings are sequences of characters.     *)
(***************************************************************************)
EXTENDS Naturals, Sequences, FiniteSets

\* ---- bounds of the model ----
MaxFrames == 2
MaxSegments == 2
MaxIdle == 1
MaxTokens == 5
MaxRequests == 2
MaxWords == 3
MaxSessions == 2
MaxClock == 2

\* ---- inputs ----
Variants == {"deepgram", "mock"}
Languages == {"en", "other_service", "unmappable"}
Codecs == {"pcm16", "unsupported"}
BytesValues == {"b1", "b2"}
TextValues == {"heartbeat", "ping"}
Outcomes == {"ok", "raise"}
ExcKinds == {"disconnect", "error"}

VARIABLES
    variant,        \* which handler serves the session
    language,       \* query parameter language
    codec,          \* query parameter codec
    pc,             \* position of the handler coroutine
    connState,      \* "open", "dropped" (peer gone) or "closed" (server close sent)
    inbox,          \* ASGI receive queue: frames not yet returned by receive()
    consumed,       \* frames returned by receive() so far
    sent,           \* event messages written to the connection, in order
    closeCodes,     \* close codes written to the connection, in order
    stt_socket,     \* adapter handle: unbound, or bound with what it was opened with
    adapterIn,      \* audio chunks the adapter received through send(), in order
    finishCalls,    \* number of stt_socket.finish() calls
    finishResult,   \* "none", "ok" or "raised": outcome of the last finish()
    tasks,          \* send tasks spawned by stream_transcript, in creation order
    emitted,        \* segments handed to stream_transcript so far
    segment_counter,\* mock handler's counter
    idleWindows,    \* idle windows that elapsed while receive() was pending
    escaped         \* an exception left the handler

VARIABLES
    transcript,     \* argument of should_discard_conversation
    classified,     \* should_discard_conversation has returned
    discard,        \* its return value
    CONVERSATIONS_STORAGE, \* the in-memory conversation list
    reqs,           \* POST /v1/conversations requests, one per worker thread
    structureCalls, \* calls of get_transcript_structure so far
    words,          \* alternative.words handed to the word-level assembly
    widx,           \* number of words the assembly loop has taken
    current_segment,      \* <<>> for None, else <<segment>>
    transcript_segments,  \* segments appended so far
    now,            \* what datetime.now().timestamp() returns
    sessions        \* identifiers and messages of concurrent /v4/listen sessions

sessVars == <<variant, language, codec, pc, connState, inbox, consumed, sent,
              closeCodes, stt_socket, adapterIn, finishCalls, finishResult,
              tasks, emitted, segment_counter, idleWindows, escaped>>

discVars == <<transcript, classified, discard>>

convVars == <<CONVERSATIONS_STORAGE, reqs, structureCalls>>

asmVars == <<words, widx, current_segment, transcript_segments>>

idVars == <<now, sessions>>

\* Everything outside the /v4/listen session.
batchVars == <<discVars, convVars, asmVars, idVars>>

vars == <<variant, language, codec, pc, connState, inbox, consumed, sent,
          closeCodes, stt_socket, adapterIn, finishCalls, finishResult, tasks,
          emitted, segment_counter, idleWindows, escaped, batchVars>>

\* ---- messages ----
Event(e) == [event |-> e, seg |-> 0]
SegmentMsg(n) == [event |-> "segment_received", seg |-> n]
Frame(t, v) == [type |-> t, v |-> v]
DisconnectMsg == Frame("disconnect", "")

RECURSIVE SelectBytes(_)
SelectBytes(s) ==
    IF s = <<>> THEN <<>>
    ELSE IF Head(s).type = "bytes"
         THEN <<Head(s).v>> \o SelectBytes(Tail(s))
         ELSE SelectBytes(Tail(s))

RECURSIVE CountEvent(_, _)
CountEvent(s, e) ==
    IF s = <<>> THEN 0
    ELSE (IF Head(s).event = e THEN 1 ELSE 0) + CountEvent(Tail(s), e)

RECURSIVE CountText(_, _)
CountText(s, t) ==
    IF s = <<>> THEN 0
    ELSE (IF Head(s).type = "text" /\ Head(s).v = t THEN 1 ELSE 0)
         + CountText(Tail(s), t)

RECURSIVE SegmentsOf(_)
SegmentsOf(s) ==
    IF s = <<>> THEN <<>>
    ELSE IF Head(s).event = "segment_received"
         THEN <<Head(s).seg>> \o SegmentsOf(Tail(s))
         ELSE SegmentsOf(Tail(s))

\* ---- life cycle, read off the handler position ----
state ==
    CASE pc = "idle" -> "Idle"
      [] pc \in {"start", "open"} -> "Accepting"
      [] pc \in {"recv", "ack", "mockseg"} -> "Active"
      [] pc \in {"close", "finish"} -> "Draining"
      [] OTHER -> "Closed"

\* The event loop runs other tasks and callbacks only while the handler is
\* suspended at an await (or has returned).
AtAwait == pc # "finish"

\* utils.stt.streaming.get_stt_service_for_language
get_stt_service_for_language(l) ==
    CASE l = "en" -> [service |-> "deepgram", language |-> "en", model |-> "nova-2-general"]
      [] l = "other_service" -> [service |-> "soniox", language |-> "other_service", model |-> "other-model"]
      [] OTHER -> [service |-> "raise", language |-> "", model |-> ""]

\* Arguments of the process_audio_dg call chosen by lines 277-293.
OpenArgs(l) ==
    LET r == get_stt_service_for_language(l) IN
    IF r.service = "deepgram"
    THEN [opened |-> TRUE, language |-> r.language, model |-> r.model]
    ELSE [opened |-> TRUE, language |-> "en", model |-> "nova-2-general"]

Unbound == [opened |-> FALSE, language |-> "", model |-> ""]

AdapterOpened == stt_socket.opened

\* Entering an except clause: WebSocketDisconnect runs lines 327-332 with no
\* await, any other Exception awaits websocket.close first.
ExceptPc(kind) == IF kind = "disconnect" THEN "finish" ELSE "close"

TypeOK ==
    /\ variant \in Variants /\ language \in Languages /\ codec \in Codecs
    /\ pc \in {"idle", "start", "open", "recv", "ack", "mockseg", "close", "finish", "done"}
    /\ connState \in {"open", "dropped", "closed"}
    /\ finishCalls \in Nat /\ emitted \in 0..(MaxSegments + 1)
    /\ finishResult \in {"none", "ok", "raised"}
    /\ idleWindows \in 0..MaxIdle
    /\ escaped \in BOOLEAN

\* ---- the batch path at rest ----

\* Worker threads of the sync POST /v1/conversations handler, one request each.
Threads == 1..MaxRequests

\* "None" stands for None and for a key the request does not have.
NoData == [segs |-> <<>>, null_text |-> FALSE, title |-> "None",
           overview |-> "None", category |-> "None", action_items |-> <<>>]

NoStructured == [raised |-> FALSE, title |-> "None", overview |-> "None",
                 emoji |-> "None", category |-> "None",
                 action_items |-> <<>>, events |-> <<>>]

NoConversation == <<>>

IdleReq == [rpc |-> "idle", data |-> NoData, structured |-> NoStructured,
            new_conversation |-> NoConversation, status |-> 0]

DiscIdle ==
    /\ transcript = <<>>
    /\ classified = FALSE
    /\ discard = FALSE

ConvIdle ==
    /\ CONVERSATIONS_STORAGE = <<>>
    /\ reqs = [t \in Threads |-> IdleReq]
    /\ structureCalls = 0

AsmIdle ==
    /\ words = <<>>
    /\ widx = 0
    /\ current_segment = <<>>
    /\ transcript_segments = <<>>

\* Connections to /v4/listen that are served at the same time.
SessionIds == 1..MaxSessions

NoId == <<"none", 0>>

IdleSession == [spc |-> "idle", variant |-> "deepgram", session_id |-> NoId,
                conversation_id |-> NoId, msgs |-> <<>>, segments |-> 0]

IdIdle ==
    /\ now = 0
    /\ sessions = [s \in SessionIds |-> IdleSession]

\* No /v4/listen session has been accepted.
SessionIdle ==
    /\ variant = "deepgram" /\ language = "en" /\ codec = "pcm16"
    /\ pc = "idle" /\ connState = "open"
    /\ inbox = <<>> /\ consumed = <<>> /\ sent = <<>> /\ closeCodes = <<>>
    /\ stt_socket = Unbound /\ adapterIn = <<>>
    /\ finishCalls = 0 /\ finishResult = "none"
    /\ tasks = <<>> /\ emitted = 0 /\ segment_counter = 0
    /\ idleWindows = 0 /\ escaped = FALSE

Init ==
    /\ DiscIdle /\ ConvIdle /\ AsmIdle /\ IdIdle
    /\ variant \in Variants
    /\ language \in Languages
    /\ codec \in Codecs
    /\ pc = "idle"
    /\ connState = "open"
    /\ inbox = <<>>
    /\ consumed = <<>>
    /\ sent = <<>>
    /\ closeCodes = <<>>
    /\ stt_socket = Unbound
    /\ adapterIn = <<>>
    /\ finishCalls = 0
    /\ finishResult = "none"
    /\ tasks = <<>>
    /\ emitted = 0
    /\ segment_counter = 0
    /\ idleWindows = 0
    /\ escaped = FALSE

\* ---- the client and the transport ----

\* The client sends one frame; the server queues it for receive().
ClientSend ==
    /\ pc # "idle"
    /\ connState = "open"
    /\ Len(consumed) + Len(inbox) < MaxFrames
    /\ \E f \in {Frame("bytes", b) : b \in BytesValues}
               \cup {Frame("text", t) : t \in TextValues} :
          inbox' = Append(inbox, f)
    /\ UNCHANGED <<batchVars, variant, language, codec, pc, connState, consumed, sent,
                   closeCodes, stt_socket, adapterIn, finishCalls, finishResult,
                   tasks, emitted, segment_counter, idleWindows, escaped>>

\* The connection is dropped (or closed by the client): the server queues a
\* websocket.disconnect message and every later send fails.
Drop ==
    /\ pc # "idle"
    /\ connState = "open"
    /\ connState' = "dropped"
    /\ inbox' = Append(inbox, DisconnectMsg)
    /\ UNCHANGED <<batchVars, variant, language, codec, pc, consumed, sent, closeCodes,
                   stt_socket, adapterIn, finishCalls, finishResult, tasks,
                   emitted, segment_counter, idleWindows, escaped>>

\* Variant of IdleWindowElapses: the wait for a frame times out and the
\* timeout is handled like any other exception.
IdleWindowElapses_ClosesIdle ==
    /\ pc = "recv"
    /\ inbox = <<>>
    /\ connState = "open"
    /\ idleWindows < MaxIdle
    /\ idleWindows' = idleWindows + 1
    /\ pc' = ExceptPc("error")
    /\ UNCHANGED <<batchVars, variant, language, codec, connState, inbox, consumed,
                   sent, closeCodes, stt_socket, adapterIn, finishCalls,
                   finishResult, tasks, emitted, segment_counter, escaped>>

\* An idle window passes while the handler is suspended in receive() with
\* nothing to receive.  receive() at line 299 is awaited without a timeout,
\* so the handler stays suspended: the asyncio.TimeoutError clause of lines
\* 318-324 has nothing that raises into it.
IdleWindowElapses ==
    /\ pc = "recv"
    /\ inbox = <<>>
    /\ connState = "open"
    /\ idleWindows < MaxIdle
    /\ idleWindows' = idleWindows + 1
    /\ UNCHANGED <<batchVars, variant, language, codec, pc, connState, inbox, consumed,
                   sent, closeCodes, stt_socket, adapterIn, finishCalls,
                   finishResult, tasks, emitted, segment_counter, escaped>>

\* ---- the handler ----

\* await websocket.accept()
Accept ==
    /\ pc = "idle"
    /\ pc' = "start"
    /\ UNCHANGED <<batchVars, variant, language, codec, connState, inbox, consumed, sent,
                   closeCodes, stt_socket, adapterIn, finishCalls, finishResult,
                   tasks, emitted, segment_counter, idleWindows, escaped>>

\* Variant of SendStarted: the service lookup runs before the announcement
\* is sent, so a failed lookup closes a session that was never announced.
SendStarted_LookupFirst ==
    /\ pc = "start"
    /\ IF connState = "open"
       THEN IF variant = "deepgram"
               /\ get_stt_service_for_language(language).service = "raise"
            THEN /\ sent' = sent
                 /\ pc' = ExceptPc("error")
            ELSE /\ sent' = Append(sent, Event("conversation_started"))
                 /\ pc' = IF variant = "mock" THEN "recv" ELSE "open"
       ELSE /\ sent' = sent
            /\ \E kind \in ExcKinds : pc' = ExceptPc(kind)
    /\ UNCHANGED <<batchVars, variant, language, codec, connState, inbox, consumed,
                   closeCodes, stt_socket, adapterIn, finishCalls, finishResult,
                   tasks, emitted, segment_counter, idleWindows, escaped>>

\* await websocket.send_json(conversation_started), then, with no await in
\* between, the service lookup up to the await of process_audio_dg.
SendStarted ==
    /\ pc = "start"
    /\ IF connState = "open"
       THEN /\ sent' = Append(sent, Event("conversation_started"))
            /\ pc' = IF variant = "mock" THEN "recv"
                     ELSE IF get_stt_service_for_language(language).service = "raise"
                          THEN ExceptPc("error")
                          ELSE "open"
       ELSE /\ sent' = sent
            /\ \E kind \in ExcKinds : pc' = ExceptPc(kind)
    /\ UNCHANGED <<batchVars, variant, language, codec, connState, inbox, consumed,
                   closeCodes, stt_socket, adapterIn, finishCalls, finishResult,
                   tasks, emitted, segment_counter, idleWindows, escaped>>

\* Variant of OpenAdapter: a failed handshake is swallowed and the audio loop
\* is entered without a handle.
OpenAdapter_IgnoresFailure ==
    /\ pc = "open"
    /\ \E outcome \in Outcomes :
          /\ stt_socket' = IF outcome = "ok" THEN OpenArgs(language) ELSE stt_socket
          /\ pc' = "recv"
    /\ UNCHANGED <<batchVars, variant, language, codec, connState, inbox, consumed, sent,
                   closeCodes, adapterIn, finishCalls, finishResult, tasks,
                   emitted, segment_counter, idleWindows, escaped>>

\* stt_socket = await process_audio_dg(...): the handshake succeeds and binds
\* the handle, or raises and leaves stt_socket unbound.
OpenAdapter ==
    /\ pc = "open"
    /\ \E outcome \in Outcomes :
          IF outcome = "ok"
          THEN /\ stt_socket' = OpenArgs(language)
               /\ pc' = "recv"
          ELSE /\ stt_socket' = stt_socket
               /\ pc' = ExceptPc("error")
    /\ UNCHANGED <<batchVars, variant, language, codec, connState, inbox, consumed, sent,
                   closeCodes, adapterIn, finishCalls, finishResult, tasks,
                   emitted, segment_counter, idleWindows, escaped>>

\* Variant of RecvBytes: the chunk is put in front of the chunks already
\* forwarded.
RecvBytes_Reordered ==
    /\ pc = "recv" /\ variant = "deepgram"
    /\ inbox # <<>> /\ Head(inbox).type = "bytes"
    /\ inbox' = Tail(inbox)
    /\ consumed' = Append(consumed, Head(inbox))
    /\ \E outcome \in Outcomes :
          IF outcome = "ok"
          THEN /\ adapterIn' = <<Head(inbox).v>> \o adapterIn
               /\ pc' = "recv"
          ELSE /\ adapterIn' = adapterIn
               /\ pc' = ExceptPc("error")
    /\ UNCHANGED <<batchVars, variant, language, codec, connState, sent, closeCodes,
                   stt_socket, finishCalls, finishResult, tasks, emitted,
                   segment_counter, idleWindows, escaped>>

\* receive() returns a binary frame (Deepgram handler): stt_socket.send(bytes).
RecvBytes ==
    /\ pc = "recv" /\ variant = "deepgram"
    /\ inbox # <<>> /\ Head(inbox).type = "bytes"
    /\ inbox' = Tail(inbox)
    /\ consumed' = Append(consumed, Head(inbox))
    /\ \E outcome \in Outcomes :
          IF outcome = "ok"
          THEN /\ adapterIn' = Append(adapterIn, Head(inbox).v)
               /\ pc' = "recv"
          ELSE /\ adapterIn' = adapterIn
               /\ pc' = ExceptPc("error")
    /\ UNCHANGED <<batchVars, variant, language, codec, connState, sent, closeCodes,
                   stt_socket, finishCalls, finishResult, tasks, emitted,
                   segment_counter, idleWindows, escaped>>

\* receive() returns a binary frame (mock handler): count it and await the
\* send of the mock segment.
MockRecvBytes ==
    /\ pc = "recv" /\ variant = "mock"
    /\ inbox # <<>> /\ Head(inbox).type = "bytes"
    /\ inbox' = Tail(inbox)
    /\ consumed' = Append(consumed, Head(inbox))
    /\ segment_counter' = segment_counter + 1
    /\ pc' = "mockseg"
    /\ UNCHANGED <<batchVars, variant, language, codec, connState, sent, closeCodes,
                   stt_socket, adapterIn, finishCalls, finishResult, tasks,
                   emitted, idleWindows, escaped>>

\* await websocket.send_json(mock_segment)
MockSendSegment ==
    /\ pc = "mockseg"
    /\ IF connState = "open"
       THEN /\ sent' = Append(sent, SegmentMsg(segment_counter))
            /\ pc' = "recv"
       ELSE /\ sent' = sent
            /\ \E kind \in ExcKinds : pc' = ExceptPc(kind)
    /\ UNCHANGED <<batchVars, variant, language, codec, connState, inbox, consumed,
                   closeCodes, stt_socket, adapterIn, finishCalls, finishResult,
                   tasks, emitted, segment_counter, idleWindows, escaped>>

\* Variant of RecvText: every text frame is acknowledged.
RecvText_AcksAnyText ==
    /\ pc = "recv"
    /\ inbox # <<>> /\ Head(inbox).type = "text"
    /\ inbox' = Tail(inbox)
    /\ consumed' = Append(consumed, Head(inbox))
    /\ pc' = "ack"
    /\ UNCHANGED <<batchVars, variant, language, codec, connState, sent, closeCodes,
                   stt_socket, adapterIn, finishCalls, finishResult, tasks,
                   emitted, segment_counter, idleWindows, escaped>>

\* receive() returns a text frame: only "heartbeat" leads to a send.
RecvText ==
    /\ pc = "recv"
    /\ inbox # <<>> /\ Head(inbox).type = "text"
    /\ inbox' = Tail(inbox)
    /\ consumed' = Append(consumed, Head(inbox))
    /\ pc' = IF Head(inbox).v = "heartbeat" THEN "ack" ELSE "recv"
    /\ UNCHANGED <<batchVars, variant, language, codec, connState, sent, closeCodes,
                   stt_socket, adapterIn, finishCalls, finishResult, tasks,
                   emitted, segment_counter, idleWindows, escaped>>

\* await websocket.send_json(heartbeat_ack)
SendAck ==
    /\ pc = "ack"
    /\ IF connState = "open"
       THEN /\ sent' = Append(sent, Event("heartbeat_ack"))
            /\ pc' = "recv"
       ELSE /\ sent' = sent
            /\ \E kind \in ExcKinds : pc' = ExceptPc(kind)
    /\ UNCHANGED <<batchVars, variant, language, codec, connState, inbox, consumed,
                   closeCodes, stt_socket, adapterIn, finishCalls, finishResult,
                   tasks, emitted, segment_counter, idleWindows, escaped>>

\* receive() returns the websocket.disconnect message, which matches no
\* branch; the next receive() raises RuntimeError, an Exception.
RecvDisconnect ==
    /\ pc = "recv"
    /\ inbox # <<>> /\ Head(inbox).type = "disconnect"
    /\ inbox' = Tail(inbox)
    /\ consumed' = Append(consumed, Head(inbox))
    /\ pc' = ExceptPc("error")
    /\ UNCHANGED <<batchVars, variant, language, codec, connState, sent, closeCodes,
                   stt_socket, adapterIn, finishCalls, finishResult, tasks,
                   emitted, segment_counter, idleWindows, escaped>>

\* Variant of Close: the connection is closed with the normal-closure code.
Close_NormalCode ==
    /\ pc = "close"
    /\ IF connState = "open"
       THEN /\ closeCodes' = Append(closeCodes, 1000)
            /\ connState' = "closed"
       ELSE UNCHANGED <<closeCodes, connState>>
    /\ pc' = "finish"
    /\ UNCHANGED <<batchVars, variant, language, codec, inbox, consumed, sent,
                   stt_socket, adapterIn, finishCalls, finishResult, tasks,
                   emitted, segment_counter, idleWindows, escaped>>

\* Variant of Close: the except Exception clause returns after the close
\* without finishing the adapter.
Close_SkipsFinish ==
    /\ pc = "close"
    /\ IF connState = "open"
       THEN /\ closeCodes' = Append(closeCodes, 1011)
            /\ connState' = "closed"
       ELSE UNCHANGED <<closeCodes, connState>>
    /\ pc' = "done"
    /\ UNCHANGED <<batchVars, variant, language, codec, inbox, consumed, sent, stt_socket,
                   adapterIn, finishCalls, finishResult, tasks, emitted,
                   segment_counter, idleWindows, escaped>>

\* Variant of Close: the close waits for the peer, so it never returns once
\* the peer is gone.
Close_AwaitsPeer ==
    /\ pc = "close"
    /\ connState = "open"
    /\ closeCodes' = Append(closeCodes, 1011)
    /\ connState' = "closed"
    /\ pc' = "finish"
    /\ UNCHANGED <<batchVars, variant, language, codec, inbox, consumed, sent, stt_socket,
                   adapterIn, finishCalls, finishResult, tasks, emitted,
                   segment_counter, idleWindows, escaped>>

\* except Exception: await websocket.close(code=1011, ...) inside try/except.
Close ==
    /\ pc = "close"
    /\ IF connState = "open"
       THEN /\ closeCodes' = Append(closeCodes, 1011)
            /\ connState' = "closed"
       ELSE UNCHANGED <<closeCodes, connState>>
    /\ pc' = "finish"
    /\ UNCHANGED <<batchVars, variant, language, codec, inbox, consumed, sent, stt_socket,
                   adapterIn, finishCalls, finishResult, tasks, emitted,
                   segment_counter, idleWindows, escaped>>

\* Variant of Finish: finish() is called outside a try block, so its failure
\* leaves the handler.
Finish_Propagates ==
    /\ pc = "finish"
    /\ IF variant = "deepgram" /\ AdapterOpened
       THEN /\ finishCalls' = finishCalls + 1
            /\ \E outcome \in Outcomes :
                  /\ finishResult' = IF outcome = "ok" THEN "ok" ELSE "raised"
                  /\ escaped' = (outcome = "raise")
       ELSE UNCHANGED <<finishCalls, finishResult, escaped>>
    /\ pc' = "done"
    /\ UNCHANGED <<batchVars, variant, language, codec, connState, inbox, consumed, sent,
                   closeCodes, stt_socket, adapterIn, tasks, emitted,
                   segment_counter, idleWindows>>

\* Variant of Finish: after finish() the handler goes back to the audio loop.
Finish_ResumesLoop ==
    /\ pc = "finish"
    /\ IF variant = "deepgram" /\ AdapterOpened
       THEN /\ finishCalls' = finishCalls + 1
            /\ \E outcome \in Outcomes :
                  finishResult' = IF outcome = "ok" THEN "ok" ELSE "raised"
       ELSE UNCHANGED <<finishCalls, finishResult>>
    /\ pc' = "recv"
    /\ UNCHANGED <<batchVars, variant, language, codec, connState, inbox, consumed, sent,
                   closeCodes, stt_socket, adapterIn, tasks, emitted,
                   segment_counter, idleWindows, escaped>>

\* if 'stt_socket' in locals() and stt_socket: try: stt_socket.finish()
\* except: pass.  The mock handler has no adapter and simply returns.
Finish ==
    /\ pc = "finish"
    /\ IF variant = "deepgram" /\ AdapterOpened
       THEN /\ finishCalls' = finishCalls + 1
            /\ \E outcome \in Outcomes :
                  finishResult' = IF outcome = "ok" THEN "ok" ELSE "raised"
       ELSE UNCHANGED <<finishCalls, finishResult>>
    /\ pc' = "done"
    /\ UNCHANGED <<batchVars, variant, language, codec, connState, inbox, consumed, sent,
                   closeCodes, stt_socket, adapterIn, tasks, emitted,
                   segment_counter, idleWindows, escaped>>

\* ---- the backend callback and the send tasks ----

\* The backend delivers n segments to stream_transcript, which spawns one
\* send task per segment, in order.
StreamTranscript ==
    /\ variant = "deepgram" /\ AdapterOpened /\ finishCalls = 0
    /\ AtAwait
    /\ \E n \in 1..2 :
          /\ emitted + n <= MaxSegments
          /\ emitted' = emitted + n
          /\ tasks' = tasks \o [i \in 1..n |-> [seg |-> emitted + i, st |-> "scheduled"]]
    /\ UNCHANGED <<batchVars, variant, language, codec, pc, connState, inbox, consumed,
                   sent, closeCodes, stt_socket, adapterIn, finishCalls,
                   finishResult, segment_counter, idleWindows, escaped>>

\* The event loop starts the oldest task that has not run yet; the task runs
\* up to the await of the connection's send.
TaskStart ==
    /\ AtAwait
    /\ \E i \in 1..Len(tasks) :
          /\ tasks[i].st = "scheduled"
          /\ \A j \in 1..(i - 1) : tasks[j].st # "scheduled"
          /\ tasks' = [tasks EXCEPT ![i].st = "sending"]
    /\ UNCHANGED <<batchVars, variant, language, codec, pc, connState, inbox, consumed,
                   sent, closeCodes, stt_socket, adapterIn, finishCalls,
                   finishResult, emitted, segment_counter, idleWindows, escaped>>

\* A task's send completes: the message is written, or the send raises in
\* the task, whose exception nobody retrieves.
TaskComplete ==
    /\ AtAwait
    /\ \E i \in 1..Len(tasks) :
          /\ tasks[i].st = "sending"
          /\ IF connState = "open"
             THEN /\ sent' = Append(sent, SegmentMsg(tasks[i].seg))
                  /\ tasks' = [tasks EXCEPT ![i].st = "done"]
             ELSE /\ sent' = sent
                  /\ tasks' = [tasks EXCEPT ![i].st = "failed"]
    /\ UNCHANGED <<batchVars, variant, language, codec, pc, connState, inbox, consumed,
                   closeCodes, stt_socket, adapterIn, finishCalls, finishResult,
                   emitted, segment_counter, idleWindows, escaped>>

Next ==
    \/ ClientSend
    \/ Drop
    \/ IdleWindowElapses
    \/ Accept
    \/ SendStarted
    \/ OpenAdapter
    \/ RecvBytes
    \/ MockRecvBytes
    \/ MockSendSegment
    \/ RecvText
    \/ SendAck
    \/ RecvDisconnect
    \/ Close
    \/ Finish
    \/ StreamTranscript
    \/ TaskStart
    \/ TaskComplete

Spec == Init /\ [][Next]_vars

\* The handler's own steps are run by the event loop whenever they can run.
FairSpec == Spec /\ WF_vars(Close) /\ WF_vars(Finish)

\* ==== identifiers of concurrent /v4/listen sessions ====
\* SpecIds follows several sessions at once, and of each only what names
\* it: the identifiers the handler takes from the clock and the messages
\* that carry them.

\* f"session-{datetime.now().timestamp()}" and the like
Stamp(prefix, t) == <<prefix, t>>

StartedMsg(cid, sid) ==
    [event |-> "conversation_started", conversation_id |-> cid, session_id |-> sid]

SegmentReceivedMsg(n, sid) ==
    [event |-> "segment_received", seg |-> n, session_id |-> sid]

InitIds ==
    /\ SessionIdle /\ DiscIdle /\ ConvIdle /\ AsmIdle
    /\ now = 0
    /\ sessions = [s \in SessionIds |-> IdleSession]

\* The clock moves on.
Tick ==
    /\ now < MaxClock
    /\ now' = now + 1
    /\ UNCHANGED <<sessions, sessVars, discVars, convVars, asmVars>>

\* From the return of accept() to the await of the first send_json.  The
\* Deepgram handler reads the clock for session_id and then for
\* conversation_id and announces both; the mock handler reads it for
\* conversation_id and then for session_id inside the announcement.  The
\* clock may move between the two reads.
StartSession(s) ==
    /\ sessions[s].spc = "idle"
    /\ \E v \in Variants, d \in {0, 1} :
          /\ now + d <= MaxClock
          /\ now' = now + d
          /\ LET sid == Stamp("session", IF v = "deepgram" THEN now ELSE now + d)
                 cid == IF v = "deepgram" THEN Stamp("conv", now + d)
                        ELSE Stamp("mock", now)
             IN sessions' = [sessions EXCEPT ![s] =
                              [spc |-> "live", variant |-> v, session_id |-> sid,
                               conversation_id |-> cid,
                               msgs |-> <<StartedMsg(cid, sid)>>,
                               segments |-> 0]]
    /\ UNCHANGED <<sessVars, discVars, convVars, asmVars>>

\* One segment_received message is built.  stream_transcript of the Deepgram
\* handler puts in the session_id variable; the mock handler reads the clock
\* again.
EmitSegment(s) ==
    /\ sessions[s].spc = "live"
    /\ sessions[s].segments < MaxSegments
    /\ sessions' = [sessions EXCEPT
          ![s].segments = @ + 1,
          ![s].msgs = Append(@, SegmentReceivedMsg(sessions[s].segments + 1,
                         IF sessions[s].variant = "deepgram"
                         THEN sessions[s].session_id
                         ELSE Stamp("session", now)))]
    /\ UNCHANGED <<now, sessVars, discVars, convVars, asmVars>>

NextIds ==
    \/ Tick
    \/ \E s \in SessionIds : StartSession(s)
    \/ \E s \in SessionIds : EmitSegment(s)

SpecIds == InitIds /\ [][NextIds]_vars

\* ==== Discard Classifier: standalone_ai.should_discard_conversation ====

Whitespace == {" ", "\t", "\n"}

IsSpace(c) == c \in Whitespace

UpperLetters == <<"A", "B", "C", "D", "E", "F", "G", "H", "I", "J", "K", "L", "M", "N", "O", "P", "Q", "R", "S", "T", "U", "V", "W", "X", "Y", "Z">>

LowerLetters == <<"a", "b", "c", "d", "e", "f", "g", "h", "i", "j", "k", "l", "m", "n", "o", "p", "q", "r", "s", "t", "u", "v", "w", "x", "y", "z">>

\* str.lower() on one character
LowerChar(c) ==
    IF \E i \in 1..26 : UpperLetters[i] = c
    THEN LowerLetters[CHOOSE i \in 1..26 : UpperLetters[i] = c]
    ELSE c

\* str.lower()
Lower(t) == [i \in 1..Len(t) |-> LowerChar(t[i])]

RECURSIVE LStrip(_)
LStrip(t) ==
    IF t # <<>> /\ IsSpace(Head(t)) THEN LStrip(Tail(t)) ELSE t

RECURSIVE RStrip(_)
RStrip(t) ==
    IF t # <<>> /\ IsSpace(t[Len(t)]) THEN RStrip(SubSeq(t, 1, Len(t) - 1)) ELSE t

\* str.strip()
Strip(t) == RStrip(LStrip(t))

\* str.split(): the maximal runs of non-whitespace characters, in order.
RECURSIVE SplitFrom(_, _, _)
SplitFrom(t, word, acc) ==
    IF t = <<>>
    THEN IF word = <<>> THEN acc ELSE Append(acc, word)
    ELSE IF IsSpace(Head(t))
         THEN SplitFrom(Tail(t), <<>>, IF word = <<>> THEN acc ELSE Append(acc, word))
         ELSE SplitFrom(Tail(t), Append(word, Head(t)), acc)

Split(t) == SplitFrom(t, <<>>, <<>>)

\* phrase in text
Contains(t, phrase) ==
    \E i \in 0..(Len(t) - Len(phrase)) : SubSeq(t, i + 1, i + Len(phrase)) = phrase

test_phrases ==
    {<<"t", "e", "s", "t">>,
     <<"t", "e", "s", "t", "i", "n", "g">>,
     <<"h", "e", "l", "l", "o", " ", "w", "o", "r", "l", "d">>,
     <<"m", "o", "c", "k">>,
     <<"s", "a", "m", "p", "l", "e">>}

\* Variant of should_discard_conversation: the phrases are looked up in the
\* transcript as written, without lowercasing it.
should_discard_conversation_CaseSensitive(t) ==
    IF t = <<>> \/ Len(Strip(t)) < 10 THEN TRUE
    ELSE IF Len(Split(t)) < 3 THEN TRUE
    ELSE IF \E phrase \in test_phrases : Contains(t, phrase) THEN TRUE
    ELSE FALSE

\* Variant of should_discard_conversation: a trimmed length of exactly 10
\* is discarded too.
should_discard_conversation_AtMost10(t) ==
    IF t = <<>> \/ Len(Strip(t)) <= 10 THEN TRUE
    ELSE IF Len(Split(t)) < 3 THEN TRUE
    ELSE IF \E phrase \in test_phrases : Contains(Lower(t), phrase) THEN TRUE
    ELSE FALSE

should_discard_conversation(t) ==
    IF t = <<>> \/ Len(Strip(t)) < 10 THEN TRUE
    ELSE IF Len(Split(t)) < 3 THEN TRUE
    ELSE IF \E phrase \in test_phrases : Contains(Lower(t), phrase) THEN TRUE
    ELSE FALSE

\* Transcripts are built from a small vocabulary, so that short and long
\* texts, few and many words, padding and denylisted phrases all occur.
Vocabulary ==
    {<<" ">>, <<"a">>, <<"a", "g", "r", "e", "e", "d">>,
     <<"T", "e", "s", "t">>, <<"h", "e", "l", "l", "o">>,
     <<"w", "o", "r", "l", "d">>, <<"m", "o", "c", "k">>}

RECURSIVE Concat(_)
Concat(ts) == IF ts = <<>> THEN <<>> ELSE Head(ts) \o Concat(Tail(ts))

Transcripts ==
    {Concat(ts) : ts \in UNION {[1..n -> Vocabulary] : n \in 0..MaxTokens}}

InitDiscard ==
    /\ SessionIdle /\ IdIdle /\ ConvIdle /\ AsmIdle
    /\ transcript \in Transcripts
    /\ classified = FALSE
    /\ discard = FALSE

\* One call of should_discard_conversation(transcript).
Classify ==
    /\ ~classified
    /\ classified' = TRUE
    /\ discard' = should_discard_conversation(transcript)
    /\ UNCHANGED <<transcript, sessVars, idVars, convVars, asmVars>>

NextDiscard == Classify

SpecDiscard == InitDiscard /\ [][NextDiscard]_vars

\* ==== POST /v1/conversations: create_conversation_with_ai ====

\* " ".join(texts)
RECURSIVE JoinSpace(_)
JoinSpace(texts) ==
    IF texts = <<>> THEN <<>>
    ELSE IF Len(texts) = 1 THEN Head(texts)
    ELSE Head(texts) \o <<" ">> \o JoinSpace(Tail(texts))

\* " ".join([seg.get("text", "") for seg in transcript_segments])
TranscriptText(data) == JoinSpace(data.segs)

\* Python's  x or y  on an optional string.
Or(x, y) == IF x \in {"None", ""} THEN y ELSE x

\* data.get(key, default)
Get(v, default) == IF v = "None" THEN default ELSE v

\* datetime.isoformat()
IsoFormat(d) ==
    CASE d = "dt-monday-10h" -> "2024-01-01T10:00:00"
      [] d = "dt-tuesday-9h" -> "2024-01-02T09:00:00"
      [] OTHER -> "None"

ActionItemsOut(items) ==
    [i \in 1..Len(items) |->
        [description |-> items[i].description, completed |-> items[i].completed]]

EventsOut(events) ==
    [i \in 1..Len(events) |->
        [title |-> events[i].title, description |-> events[i].description,
         start |-> IF events[i].start # "None" THEN IsoFormat(events[i].start) ELSE "None",
         duration |-> events[i].duration]]

\* Lines 96-129: the conversation built from the capability's result.
AiConversation(data, st, n) ==
    [id |-> <<"ai-conv", n + 1>>,
     title |-> Or(st.title, Get(data.title, "AI Generated Conversation")),
     overview |-> Or(st.overview, Get(data.overview, "")),
     emoji |-> Or(st.emoji, "robot"),
     category |-> Or(st.category, "general"),
     structured |->
        [title |-> Or(st.title, Get(data.title, "AI Generated")),
         overview |-> Or(st.overview, ""),
         emoji |-> Or(st.emoji, "robot"),
         category |-> Or(st.category, "general"),
         action_items |-> ActionItemsOut(st.action_items),
         events |-> EventsOut(st.events)],
     transcript_segments |-> data.segs,
     action_items |-> ActionItemsOut(st.action_items)]

\* Lines 134-153: the conversation built when the capability raised.
FallbackConversation(data, n) ==
    [id |-> <<"fallback", n + 1>>,
     title |-> Get(data.title, "New Conversation"),
     overview |-> Get(data.overview, "AI processing unavailable"),
     emoji |-> "memo",
     category |-> "user",
     structured |->
        [title |-> Get(data.title, "New Conversation"),
         overview |-> Get(data.overview, ""),
         emoji |-> "memo",
         category |-> "user",
         action_items |-> data.action_items,
         events |-> <<>>],
     transcript_segments |-> data.segs,
     action_items |-> data.action_items]

\* Lines 156-175: the conversation built without a transcript.
BasicConversation(data, n) ==
    [id |-> <<"basic", n + 1>>,
     title |-> Get(data.title, "New Conversation"),
     overview |-> Get(data.overview, ""),
     emoji |-> "speech",
     category |-> "user",
     structured |->
        [title |-> Get(data.title, "New Conversation"),
         overview |-> Get(data.overview, ""),
         emoji |-> "speech",
         category |-> "user",
         action_items |-> data.action_items,
         events |-> <<>>],
     transcript_segments |-> data.segs,
     action_items |-> data.action_items]

\* ---- requests and capability results the model draws from ----

TextBlank == <<" ", " ">>
TextDenylisted == <<"h", "e", "l", "l", "o", " ", "w", "o", "r", "l", "d", " ", "a">>
TextKeptA == <<"a", "g", "r", "e", "e", "d", " ", "a">>
TextKeptB == <<"a", "g", "r", "e", "e", "d">>

SegmentLists == {<<>>, <<TextBlank>>, <<TextDenylisted>>, <<TextKeptA, TextKeptB>>}

CallerItem == [description |-> "caller item", completed |-> FALSE]

\* A request with a segment whose "text" is null: seg.get("text", "") is
\* None and the join of line 78 raises TypeError.
NullTextRequest == [NoData EXCEPT !.null_text = TRUE]

\* A request that supplies nothing but segments, or every further field, or
\* a segment without a text.
Requests ==
    {[segs |-> segs, null_text |-> FALSE, title |-> "None", overview |-> "None",
      category |-> "None", action_items |-> <<>>] : segs \in SegmentLists}
    \cup
    {[segs |-> segs, null_text |-> FALSE, title |-> "caller title",
      overview |-> "caller overview", category |-> "caller category",
      action_items |-> <<CallerItem>>] : segs \in SegmentLists}
    \cup
    {NullTextRequest}

AiItems ==
    <<[description |-> "ai item 1", completed |-> FALSE],
      [description |-> "ai item 2", completed |-> TRUE]>>

AiEvents ==
    <<[title |-> "ai event 1", description |-> "d1", start |-> "dt-monday-10h", duration |-> 30],
      [title |-> "ai event 2", description |-> "d2", start |-> "None", duration |-> 60]>>

\* What get_transcript_structure returns: nothing but None, all of title,
\* overview and category, all but one of them, or everything with items and
\* events.
StructuredResults ==
    {[raised |-> FALSE, title |-> ti, overview |-> ov, category |-> ca,
      emoji |-> "None", action_items |-> <<>>, events |-> <<>>] :
        <<ti, ov, ca>> \in {<<"None", "None", "None">>,
                            <<"ai title", "ai overview", "ai category">>,
                            <<"None", "ai overview", "ai category">>,
                            <<"ai title", "None", "ai category">>,
                            <<"ai title", "ai overview", "None">>}}
    \cup
    {[raised |-> FALSE, title |-> "ai title", overview |-> "ai overview",
      category |-> "ai category", emoji |-> "ai emoji",
      action_items |-> AiItems, events |-> AiEvents]}

Raised == [NoStructured EXCEPT !.raised = TRUE]

InitConv ==
    /\ SessionIdle /\ IdIdle /\ DiscIdle /\ AsmIdle
    /\ ConvIdle

\* Lines 71-84 and 154-175: the request arrives; its transcript is joined
\* and, when not blank, classified.  A discarded transcript is answered 400
\* (the HTTPException passes through lines 180-181); without transcript the
\* basic conversation is built, reading the length of the storage.  A join
\* that raises is answered 500 (lines 182-184).
ReceiveRequest(t) ==
    /\ reqs[t].rpc = "idle"
    /\ \E data \in Requests :
          LET transcript_text == TranscriptText(data) IN
          IF data.null_text
          THEN reqs' = [reqs EXCEPT ![t].rpc = "done", ![t].data = data,
                                    ![t].status = 500]
          ELSE IF Strip(transcript_text) # <<>>
          THEN IF should_discard_conversation(transcript_text)
               THEN reqs' = [reqs EXCEPT ![t].rpc = "done", ![t].data = data,
                                         ![t].status = 400]
               ELSE reqs' = [reqs EXCEPT ![t].rpc = "structure", ![t].data = data]
          ELSE reqs' = [reqs EXCEPT ![t].rpc = "append", ![t].data = data,
                           ![t].new_conversation =
                               <<BasicConversation(data, Len(CONVERSATIONS_STORAGE))>>]
    /\ UNCHANGED <<CONVERSATIONS_STORAGE, structureCalls, sessVars, idVars, discVars, asmVars>>

\* Variant of StructureTranscript: a failure of the capability fails the
\* request.
StructureTranscript_FailsRequest(t) ==
    /\ reqs[t].rpc = "structure"
    /\ structureCalls' = structureCalls + 1
    /\ \E st \in StructuredResults \cup {Raised} :
          IF st.raised
          THEN reqs' = [reqs EXCEPT ![t].rpc = "done", ![t].structured = st,
                                    ![t].status = 500]
          ELSE reqs' = [reqs EXCEPT ![t].rpc = "append", ![t].structured = st,
                           ![t].new_conversation =
                               <<AiConversation(reqs[t].data, st,
                                                Len(CONVERSATIONS_STORAGE))>>]
    /\ UNCHANGED <<CONVERSATIONS_STORAGE, sessVars, idVars, discVars, asmVars>>

\* Lines 87-153: get_transcript_structure is called; from what it returns
\* the AI conversation is built, and when it raises the fallback one; either
\* reads the length of the storage.
StructureTranscript(t) ==
    /\ reqs[t].rpc = "structure"
    /\ structureCalls' = structureCalls + 1
    /\ \E st \in StructuredResults \cup {Raised} :
          reqs' = [reqs EXCEPT ![t].rpc = "append", ![t].structured = st,
                      ![t].new_conversation =
                          IF st.raised
                          THEN <<FallbackConversation(reqs[t].data,
                                                      Len(CONVERSATIONS_STORAGE))>>
                          ELSE <<AiConversation(reqs[t].data, st,
                                                Len(CONVERSATIONS_STORAGE))>>]
    /\ UNCHANGED <<CONVERSATIONS_STORAGE, sessVars, idVars, discVars, asmVars>>

\* Variant of AppendConversation: the conversation is put in front of the
\* stored ones.
AppendConversation_Prepends(t) ==
    /\ reqs[t].rpc = "append"
    /\ CONVERSATIONS_STORAGE' =
          <<reqs[t].new_conversation[1]>> \o CONVERSATIONS_STORAGE
    /\ reqs' = [reqs EXCEPT ![t].rpc = "done", ![t].status = 200]
    /\ UNCHANGED <<structureCalls, sessVars, idVars, discVars, asmVars>>

\* Lines 177-178: the conversation is appended and returned.
AppendConversation(t) ==
    /\ reqs[t].rpc = "append"
    /\ CONVERSATIONS_STORAGE' =
          Append(CONVERSATIONS_STORAGE, reqs[t].new_conversation[1])
    /\ reqs' = [reqs EXCEPT ![t].rpc = "done", ![t].status = 200]
    /\ UNCHANGED <<structureCalls, sessVars, idVars, discVars, asmVars>>

NextConv ==
    \/ \E t \in Threads : ReceiveRequest(t)
    \/ \E t \in Threads : StructureTranscript(t)
    \/ \E t \in Threads : AppendConversation(t)

SpecConv == InitConv /\ [][NextConv]_vars

\* ==== POST /v1/transcribe: word-level segment assembly of transcribe_audio ====

WordTexts == {<<>>, <<" ">>, <<"a">>, <<"b">>}

Speakers == {0, 1}

\* How the backend timed the words of a list: one after the other, all at
\* the same instant, or running backwards.
Timings == {"spread", "flat", "reversed"}

WordStart(timing, i) ==
    CASE timing = "spread" -> 2 * i - 2
      [] timing = "flat" -> 0
      [] OTHER -> 2 * (MaxWords + 1 - i)

WordEnd(timing, i) ==
    CASE timing = "spread" -> 2 * i - 1
      [] timing = "flat" -> 0
      [] OTHER -> 2 * (MaxWords + 1 - i) + 1

\* alternative.words
WordLists ==
    UNION {
        {[i \in 1..n |-> [punctuated_word |-> texts[i], speaker |-> speakers[i],
                          start |-> WordStart(timing, i),
                          end |-> WordEnd(timing, i),
                          confidence |-> 90]] :
            texts \in [1..n -> WordTexts], speakers \in [1..n -> Speakers],
            timing \in Timings} :
        n \in 1..MaxWords}

\* Line 397 is taken only for a non-empty word list.
InitAssemble ==
    /\ SessionIdle /\ IdIdle /\ DiscIdle /\ ConvIdle
    /\ words \in WordLists
    /\ widx = 0
    /\ current_segment = <<>>
    /\ transcript_segments = <<>>

\* Variant of AssembleWord: a change of speaker does not close the open
\* segment.
AssembleWord_KeepsOpen ==
    /\ widx < Len(words)
    /\ LET word == words[widx + 1]
           speaker_id == word.speaker
       IN IF current_segment = <<>>
          THEN /\ transcript_segments' = transcript_segments
               /\ current_segment' =
                     <<[text |-> word.punctuated_word,
                        speaker |-> <<"SPEAKER", speaker_id>>,
                        speaker_id |-> speaker_id,
                        start |-> word.start,
                        end |-> word.end,
                        confidence |-> word.confidence]>>
          ELSE /\ transcript_segments' = transcript_segments
               /\ current_segment' =
                     <<[current_segment[1] EXCEPT
                          !.text = @ \o <<" ">> \o word.punctuated_word,
                          !.end = word.end]>>
    /\ widx' = widx + 1
    /\ UNCHANGED <<words, sessVars, idVars, discVars, convVars>>

\* Variant of AssembleWord: a word added to the open segment also moves the
\* segment's start.
AssembleWord_MovesStart ==
    /\ widx < Len(words)
    /\ LET word == words[widx + 1]
           speaker_id == word.speaker
       IN IF current_segment = <<>> \/ current_segment[1].speaker_id # speaker_id
          THEN /\ transcript_segments' =
                     IF current_segment # <<>>
                     THEN Append(transcript_segments, current_segment[1])
                     ELSE transcript_segments
               /\ current_segment' =
                     <<[text |-> word.punctuated_word,
                        speaker |-> <<"SPEAKER", speaker_id>>,
                        speaker_id |-> speaker_id,
                        start |-> word.start,
                        end |-> word.end,
                        confidence |-> word.confidence]>>
          ELSE /\ transcript_segments' = transcript_segments
               /\ current_segment' =
                     <<[current_segment[1] EXCEPT
                          !.text = @ \o <<" ">> \o word.punctuated_word,
                          !.start = word.start,
                          !.end = word.end]>>
    /\ widx' = widx + 1
    /\ UNCHANGED <<words, sessVars, idVars, discVars, convVars>>

\* Lines 399-415: one round of the loop over alternative.words.
AssembleWord ==
    /\ widx < Len(words)
    /\ LET word == words[widx + 1]
           speaker_id == word.speaker
       IN IF current_segment = <<>> \/ current_segment[1].speaker_id # speaker_id
          THEN /\ transcript_segments' =
                     IF current_segment # <<>>
                     THEN Append(transcript_segments, current_segment[1])
                     ELSE transcript_segments
               /\ current_segment' =
                     <<[text |-> word.punctuated_word,
                        speaker |-> <<"SPEAKER", speaker_id>>,
                        speaker_id |-> speaker_id,
                        start |-> word.start,
                        end |-> word.end,
                        confidence |-> word.confidence]>>
          ELSE /\ transcript_segments' = transcript_segments
               /\ current_segment' =
                     <<[current_segment[1] EXCEPT
                          !.text = @ \o <<" ">> \o word.punctuated_word,
                          !.end = word.end]>>
    /\ widx' = widx + 1
    /\ UNCHANGED <<words, sessVars, idVars, discVars, convVars>>

\* Lines 417-418: after the loop the open segment is appended.
AssembleFlush ==
    /\ widx = Len(words)
    /\ transcript_segments' =
          IF current_segment # <<>>
          THEN Append(transcript_segments, current_segment[1])
          ELSE transcript_segments
    /\ widx' = widx + 1
    /\ UNCHANGED <<words, current_segment, sessVars, idVars, discVars, convVars>>

NextAssemble ==
    \/ AssembleWord
    \/ AssembleFlush

SpecAssemble == InitAssemble /\ [][NextAssemble]_vars

\* ---- properties ----

IsPrefix(a, b) == Len(a) <= Len(b) /\ a = SubSeq(b, 1, Len(a))

Increasing(s) == \A i, j \in 1..Len(s) : i < j => s[i] < s[j]

HandlerEffects == <<sent, closeCodes, finishCalls, adapterIn>>

\* C1: when the connection is dropped in a session whose adapter was opened,
\* finish() has been called exactly once by the time the handler returns,
\* it is never called more than once, and no exception leaves the handler.
\* (The handler contains no Persistence Sink write at all.)
C1_TeardownOnDrop ==
    /\ finishCalls <= 1
    /\ ~escaped
    /\ (pc = "done" /\ AdapterOpened /\ connState = "dropped") => finishCalls = 1

\* A session dropped while a heartbeat_ack was being sent and while a
\* segment send was pending, torn down with one finish().
C1_Witness ==
    /\ pc = "done" /\ AdapterOpened /\ connState = "dropped"
    /\ finishCalls = 1
    /\ CountText(consumed, "heartbeat") = 1
    /\ CountEvent(sent, "heartbeat_ack") = 0
    /\ \E i \in 1..Len(tasks) : tasks[i].st = "failed"

\* C2 (as claimed): segment_received messages reach the connection in the
\* order the segments were handed to stream_transcript.
C2_SegmentOrder == Increasing(SegmentsOf(sent))

\* C3 (as claimed): while the handler waits in receive(), every idle window
\* that has elapsed has been answered by exactly one heartbeat event.
C3_HeartbeatPerIdleWindow ==
    pc = "recv" => CountEvent(sent, "heartbeat") = idleWindows

\* C4: a text frame never reaches the adapter and never spawns a segment;
\* "heartbeat" leads to exactly one heartbeat_ack, any other text to no
\* message; the session stays Active unless the connection is gone when the
\* acknowledgment is sent.
C4_TextFrames ==
    /\ [](pc = "recv" =>
            CountEvent(sent, "heartbeat_ack") = CountText(consumed, "heartbeat"))
    /\ [][ /\ (pc = "recv" /\ inbox # <<>> /\ Head(inbox).type = "text"
               /\ consumed' # consumed)
              => /\ adapterIn' = adapterIn /\ tasks' = tasks /\ sent' = sent
                 /\ state' = "Active"
                 /\ (pc' = "ack") = (Head(inbox).v = "heartbeat")
           /\ (pc = "ack" /\ pc' # "ack")
              => /\ adapterIn' = adapterIn /\ tasks' = tasks
                 /\ IF connState = "open"
                    THEN sent' = Append(sent, Event("heartbeat_ack")) /\ pc' = "recv"
                    ELSE sent' = sent
         ]_vars

\* Both kinds of text frame were handled and the session is still Active.
C4_Witness ==
    /\ pc = "recv"
    /\ CountText(consumed, "heartbeat") = 1
    /\ CountText(consumed, "ping") = 1
    /\ CountEvent(sent, "heartbeat_ack") = 1
    /\ Len(sent) = 2

\* C5: conversation_started is sent at most once, it is the first message
\* of the session, no close is sent before it, and a session that got past
\* its start has sent it exactly once.
C5_StartedFirst ==
    /\ CountEvent(sent, "conversation_started") <= 1
    /\ sent # <<>> => sent[1].event = "conversation_started"
    /\ closeCodes # <<>> => sent # <<>>
    /\ pc \in {"open", "recv", "ack", "mockseg"}
          => CountEvent(sent, "conversation_started") = 1

\* A session that sent a segment, a heartbeat_ack and a close after its
\* conversation_started.
C5_Witness ==
    /\ Len(sent) >= 3
    /\ CountEvent(sent, "segment_received") >= 1
    /\ CountEvent(sent, "heartbeat_ack") >= 1
    /\ closeCodes # <<>>

\* C6 (as claimed): with a language or codec that maps to no supported
\* backend profile the adapter is never opened, no frame is read and the
\* session never becomes Active.
C6_FailFast ==
    (variant = "deepgram" /\ (codec = "unsupported" \/ language = "unmappable"))
        => (~AdapterOpened /\ state # "Active" /\ consumed = <<>>)

\* C7: the adapter has received a prefix of the binary frames the handler
\* has read, in the order the client sent them, and while the session is
\* Active it has received every one of them exactly once.
C7_FramesForwarded ==
    variant = "deepgram" =>
        /\ IsPrefix(adapterIn, SelectBytes(consumed))
        /\ state = "Active" => adapterIn = SelectBytes(consumed)

\* Two different binary frames were forwarded, in the order sent.
C7_Witness ==
    /\ variant = "deepgram" /\ state = "Active"
    /\ adapterIn = <<"b1", "b2">>

LifecycleSteps ==
    {<<"Idle", "Accepting">>, <<"Accepting", "Active">>,
     <<"Active", "Draining">>, <<"Draining", "Closed">>}

\* C8 (as claimed): the life cycle moves only along
\* Idle -> Accepting -> Active -> Draining -> Closed, skipping no state.
C8_NoStateSkipped ==
    [][state' = state \/ <<state, state'>> \in LifecycleSteps]_vars

\* C8 (amended): the life cycle moves only forward along
\* Idle -> Accepting -> Active -> Draining -> Closed, the one skip being
\* Accepting -> Draining when the start fails; in the Deepgram handler
\* Accepting becomes Active only by binding the adapter handle; Active
\* becomes Draining only when the peer is gone or the adapter send failed;
\* Closed is terminal.
C8_Lifecycle ==
    [][ /\ \/ state' = state
           \/ <<state, state'>> \in LifecycleSteps \cup {<<"Accepting", "Draining">>}
        /\ (variant = "deepgram" /\ state = "Accepting" /\ state' = "Active")
              => (~AdapterOpened /\ AdapterOpened')
        /\ (state = "Active" /\ state' = "Draining")
              => \/ connState # "open"
                 \/ (inbox # <<>> /\ Head(inbox).type = "bytes"
                     /\ consumed' # consumed /\ adapterIn' = adapterIn)
        /\ (state = "Accepting" /\ state' = "Draining") => ~AdapterOpened'
        /\ pc = "done" => pc' = "done"
      ]_vars

\* A start that failed on a live connection: closed with 1011, never Active.
C8_Witness ==
    /\ variant = "deepgram" /\ state = "Closed"
    /\ ~AdapterOpened /\ closeCodes = <<1011>> /\ consumed = <<>>

\* C9: a session in Draining reaches Closed whether the close and finish()
\* succeed or fail, and after Closed the handler has no further effect.
C9_DrainingCloses ==
    /\ (state = "Draining") ~> (state = "Closed")
    /\ [][pc = "done" => (pc' = "done" /\ UNCHANGED HandlerEffects)]_vars

\* Closed after a close that failed (peer gone) and a finish() that raised.
C9_Witness ==
    /\ state = "Closed" /\ finishResult = "raised"
    /\ closeCodes = <<>> /\ consumed # <<>>
    /\ consumed[Len(consumed)] = DisconnectMsg

\* C10: a finish() that raises is swallowed: the handler returns without an
\* escaping exception, finish() is not called again, and the step sends
\* neither a message nor a close.
C10_FinishFailureSwallowed ==
    /\ [](finishResult = "raised" => (pc = "done" /\ ~escaped /\ finishCalls = 1))
    /\ [][finishResult' = "raised" => (sent' = sent /\ closeCodes' = closeCodes)]_vars

\* finish() raised after the server had closed the connection with 1011.
C10_Witness ==
    /\ finishResult = "raised" /\ pc = "done"
    /\ closeCodes = <<1011>> /\ finishCalls = 1

\* ---- further properties of the /v4/listen session ----

NormalEvents ==
    {"conversation_started", "segment_received", "heartbeat", "heartbeat_ack"}

\* C11: the client sees only the four event messages and at most one close,
\* always with code 1011 (the reason is the literal "Internal server error"
\* of the one close call); a session torn down on a connection the client
\* has not left was closed exactly once with 1011, and a connection the
\* client left receives no close.
C11_SingleServerFaultClose ==
    /\ \A i \in 1..Len(sent) : sent[i].event \in NormalEvents
    /\ Len(closeCodes) <= 1
    /\ \A i \in 1..Len(closeCodes) : closeCodes[i] = 1011
    /\ (pc \in {"finish", "done"} /\ connState # "dropped") => closeCodes = <<1011>>
    /\ connState = "dropped" => closeCodes = <<>>
    /\ connState = "closed" => closeCodes = <<1011>>

\* A backend error in an Active session: the frame was not forwarded and the
\* session was closed with 1011 after normal events.
C11_Witness ==
    /\ pc = "done" /\ AdapterOpened
    /\ closeCodes = <<1011>>
    /\ adapterIn # SelectBytes(consumed)
    /\ Len(sent) >= 2

\* C12: an idle window changes nothing but the passage of time, and a
\* session that has been idle stays Active as long as the client has not
\* left and no adapter send has failed.
C12_NoIdleClose ==
    /\ []((idleWindows > 0 /\ connState = "open"
           /\ (variant = "deepgram" => adapterIn = SelectBytes(consumed)))
          => state = "Active")
    /\ [][idleWindows' # idleWindows
            => (pc' = pc /\ UNCHANGED <<connState, closeCodes, finishCalls, sent>>)]_vars

\* Still Active and receiving frames after every idle window of the run.
C12_Witness ==
    /\ idleWindows = MaxIdle /\ state = "Active"
    /\ Len(consumed) = MaxFrames /\ connState = "open"

\* C13 (as claimed): when a session whose adapter was opened has ended,
\* its transcript has been handed to the structuring step.
C13_TranscriptHandedOver ==
    (pc = "done" /\ AdapterOpened) => structureCalls >= 1

\* ---- properties of the Discard Classifier ----

\* Length of the transcript without leading and trailing whitespace.
TrimmedLength(t) ==
    LET solid == {i \in 1..Len(t) : ~IsSpace(t[i])} IN
    IF solid = {} THEN 0
    ELSE (CHOOSE i \in solid : \A j \in solid : j <= i)
         - (CHOOSE i \in solid : \A j \in solid : i <= j) + 1

\* Number of whitespace-separated words.
WordCount(t) ==
    Cardinality({i \in 1..Len(t) : ~IsSpace(t[i]) /\ (i = 1 \/ IsSpace(t[i - 1]))})

\* The phrase occurs somewhere in the transcript, in any letter case.
HasPhrase(t, phrase) ==
    \E i \in 0..(Len(t) - Len(phrase)) :
        \A k \in 1..Len(phrase) : LowerChar(t[i + k]) = phrase[k]

Denylisted(t) == \E phrase \in test_phrases : HasPhrase(t, phrase)

\* C14: a transcript whose trimmed length is under 10, or that has fewer
\* than 3 words, or that contains a denylisted phrase in any letter case,
\* is discarded.
C14_DiscardRules ==
    (classified /\ (TrimmedLength(transcript) < 10 \/ WordCount(transcript) < 3
                    \/ Denylisted(transcript)))
        => discard

\* A long transcript of three words discarded only for "Test" in capitals.
C14_Witness ==
    /\ classified /\ discard
    /\ TrimmedLength(transcript) >= 10 /\ WordCount(transcript) >= 3
    /\ Denylisted(transcript)
    /\ \A phrase \in test_phrases : ~Contains(transcript, phrase)

\* C15 (as claimed): a transcript of at least 3 words without denylisted
\* phrase is kept.
C15_KeptByWordsAndPhrases ==
    (classified /\ WordCount(transcript) >= 3 /\ ~Denylisted(transcript))
        => ~discard

\* C15 (amended): a transcript whose trimmed length is at least 10, that has
\* at least 3 words and contains no denylisted phrase as a substring in any
\* letter case, is kept.
C15_Kept ==
    (classified /\ TrimmedLength(transcript) >= 10 /\ WordCount(transcript) >= 3
     /\ ~Denylisted(transcript))
        => ~discard

\* A kept transcript of exactly 10 characters after trimming.
C15_Witness ==
    /\ classified /\ ~discard
    /\ TrimmedLength(transcript) = 10 /\ WordCount(transcript) = 3

\* ---- properties of POST /v1/conversations ----

\* The request carries a transcript that the classifier rejects.
Rejected(data) ==
    /\ Strip(TranscriptText(data)) # <<>>
    /\ should_discard_conversation(TranscriptText(data))

\* The request carries a transcript that the classifier keeps.
Kept(data) ==
    /\ Strip(TranscriptText(data)) # <<>>
    /\ ~should_discard_conversation(TranscriptText(data))

InStorage(conv) ==
    \E i \in 1..Len(CONVERSATIONS_STORAGE) : CONVERSATIONS_STORAGE[i] = conv

\* The field of the summary is the capability's value, else the caller's.
MappedField(result, fromCapability, fromCaller) ==
    IF fromCapability # "None" THEN result = fromCapability
    ELSE fromCaller # "None" => result = fromCaller

\* C16 (as claimed): a request whose transcript is rejected is answered
\* with a result that is not an error, without a call of the capability and
\* without storing anything.
C16_DiscardedIsNoError ==
    \A t \in Threads :
        (reqs[t].rpc = "done" /\ Rejected(reqs[t].data))
            => /\ reqs[t].status = 200
               /\ reqs[t].structured = NoStructured
               /\ reqs[t].new_conversation = NoConversation

\* C17: when the capability raises for a kept transcript, the request is
\* not failed: the fallback conversation (marked by its "fallback" id) is
\* built, stored and returned with status 200.
C17_CapabilityFailureDegrades ==
    \A t \in Threads :
        reqs[t].structured.raised
            => /\ Kept(reqs[t].data)
               /\ reqs[t].rpc \in {"append", "done"}
               /\ reqs[t].status \in {0, 200}
               /\ reqs[t].new_conversation # NoConversation
               /\ reqs[t].new_conversation[1].id[1] = "fallback"
               /\ reqs[t].rpc = "done"
                     => (reqs[t].status = 200 /\ InStorage(reqs[t].new_conversation[1]))

\* A request answered 200 with a stored fallback conversation after the
\* capability raised.
C17_Witness ==
    \E t \in Threads :
        /\ reqs[t].structured.raised /\ reqs[t].rpc = "done"
        /\ reqs[t].status = 200
        /\ InStorage(reqs[t].new_conversation[1])
        /\ reqs[t].new_conversation[1].overview = "AI processing unavailable"

\* C18 (as claimed): the summary of a fallback conversation has no action
\* items and no events.
C18_DegradedSummaryEmpty ==
    \A i \in 1..Len(CONVERSATIONS_STORAGE) :
        CONVERSATIONS_STORAGE[i].id[1] = "fallback"
            => /\ CONVERSATIONS_STORAGE[i].structured.action_items = <<>>
               /\ CONVERSATIONS_STORAGE[i].structured.events = <<>>

\* C19 (as claimed): in the summary of a conversation built from the
\* capability's result, title, overview and category are the capability's
\* values where it returned them and the caller's otherwise, and the action
\* items and events are the capability's, in order.
C19_SummaryMapping ==
    \A t \in Threads :
        (reqs[t].new_conversation # NoConversation
         /\ reqs[t].new_conversation[1].id[1] = "ai-conv")
            => LET summary == reqs[t].new_conversation[1].structured
                   st == reqs[t].structured
                   data == reqs[t].data
               IN /\ MappedField(summary.title, st.title, data.title)
                  /\ MappedField(summary.overview, st.overview, data.overview)
                  /\ MappedField(summary.category, st.category, data.category)
                  /\ Len(summary.action_items) = Len(st.action_items)
                  /\ \A i \in 1..Len(st.action_items) :
                        summary.action_items[i].description = st.action_items[i].description
                  /\ Len(summary.events) = Len(st.events)
                  /\ \A i \in 1..Len(st.events) :
                        summary.events[i].title = st.events[i].title

\* ---- properties of the segment assembly ----

AssemblyDone == widx = Len(words) + 1

HasText(word) == word.punctuated_word # <<>>

\* The texts of the words that have one, in arrival order.
RECURSIVE TextsOf(_)
TextsOf(ws) ==
    IF ws = <<>> THEN <<>>
    ELSE <<Head(ws).punctuated_word>> \o TextsOf(Tail(ws))

\* C20 (as claimed): words that all carry the same speaker give exactly one
\* segment, whose text is the non-empty word texts joined by single spaces.
C20_OneSegmentJoined ==
    (AssemblyDone /\ \A i, j \in 1..Len(words) : words[i].speaker = words[j].speaker)
        => /\ Len(transcript_segments) = 1
           /\ transcript_segments[1].text = JoinSpace(TextsOf(SelectSeq(words, HasText)))

\* The words the loop has taken so far.
Taken == IF widx > Len(words) THEN Len(words) ELSE widx

\* The segments built so far: the appended ones and, until the flush, the
\* open one.
AllSegments ==
    IF AssemblyDone THEN transcript_segments
    ELSE transcript_segments \o current_segment

\* Word k carries a speaker label different from the word before it (or is
\* the first word).
SpeakerChangesAt(k) == k = 1 \/ words[k].speaker # words[k - 1].speaker

\* The words up to k at which the speaker changes.
Boundaries(k) == {i \in 1..k : SpeakerChangesAt(i)}

\* The last word taken that continues the run of one speaker begun at k.
RunEnd(k) ==
    CHOOSE e \in k..Taken :
        /\ \A i \in (k + 1)..e : ~SpeakerChangesAt(i)
        /\ e = Taken \/ SpeakerChangesAt(e + 1)

\* C21: every word whose speaker differs from the word before it closes the
\* open segment and starts a new one that has the word's text first and
\* the word's start time; the text of a segment is made of the words of one
\* run of a single speaker and of nothing else.
C21_SpeakerChangeStartsSegment ==
    /\ Len(AllSegments) = Cardinality(Boundaries(Taken))
    /\ \A k \in Boundaries(Taken) :
          LET j == Cardinality(Boundaries(k))
              seg == AllSegments[j]
          IN /\ j - 1 <= Len(transcript_segments)
             /\ seg.start = words[k].start
             /\ seg.speaker_id = words[k].speaker
             /\ IsPrefix(words[k].punctuated_word, seg.text)
             /\ seg.text = JoinSpace(TextsOf(SubSeq(words, k, RunEnd(k))))

C21_Witness ==
    /\ AssemblyDone
    /\ Len(words) = 3
    /\ words[1].speaker = words[2].speaker
    /\ words[3].speaker # words[2].speaker
    /\ words[1].punctuated_word # <<>> /\ words[2].punctuated_word # <<>>
    /\ words[3].punctuated_word # <<>>
    /\ Len(transcript_segments) = 2

\* C22 (as claimed): a word whose text is empty or only whitespace leaves
\* the open segment and the appended segments as they are.
C22_BlankWordDropped ==
    [][(widx < Len(words) /\ widx' = widx + 1
        /\ Strip(words[widx + 1].punctuated_word) = <<>>)
          => /\ current_segment' = current_segment
             /\ transcript_segments' = transcript_segments]_vars

\* The words' time offsets never go back.
NonDecreasingTimes ==
    /\ \A i \in 1..Len(words) : words[i].start <= words[i].end
    /\ \A i, j \in 1..Len(words) :
          i < j => words[i].start <= words[j].start /\ words[i].end <= words[j].end

\* Segment starts and ends do not go back in the order of the segments.
SegmentsInTimeOrder ==
    /\ \A i \in 1..Len(AllSegments) : AllSegments[i].start <= AllSegments[i].end
    /\ \A i, j \in 1..Len(AllSegments) :
          i < j => /\ AllSegments[i].start <= AllSegments[j].start
                   /\ AllSegments[i].end <= AllSegments[j].end

\* A step keeps every segment's speaker and start; its text only grows and
\* its end only advances.
SegmentsOnlyGrow ==
    /\ Len(AllSegments) <= Len(AllSegments')
    /\ \A i \in 1..Len(AllSegments) :
          /\ AllSegments'[i].speaker = AllSegments[i].speaker
          /\ AllSegments'[i].speaker_id = AllSegments[i].speaker_id
          /\ AllSegments'[i].start = AllSegments[i].start
          /\ IsPrefix(AllSegments[i].text, AllSegments'[i].text)
          /\ AllSegments[i].end <= AllSegments'[i].end

\* C23: for words whose time offsets never go back, the segments are in time
\* order with start at most end, and a segment's speaker label, speaker
\* index and start never change once it exists.
C23_SegmentTimesMonotone ==
    /\ [](NonDecreasingTimes => SegmentsInTimeOrder)
    /\ [][NonDecreasingTimes => SegmentsOnlyGrow]_vars

C23_Witness ==
    /\ AssemblyDone
    /\ NonDecreasingTimes
    /\ Len(words) = 3
    /\ Len(transcript_segments) = 2
    /\ transcript_segments[1].end > words[1].end
    /\ transcript_segments[2].start > transcript_segments[1].start

\* Start and end of the n-th segment of the mock handler, in tenths of a
\* second.
MockStart(n) == 20 * n

MockEnd(n) == 20 * n + 18

\* The same order for the segments the mock handler of /v4/listen writes.
MockSegmentsInTimeOrder ==
    variant = "mock" =>
        LET segs == SegmentsOf(sent) IN
        /\ \A i \in 1..Len(segs) : MockStart(segs[i]) <= MockEnd(segs[i])
        /\ \A i, j \in 1..Len(segs) :
              i < j => /\ MockStart(segs[i]) <= MockStart(segs[j])
                       /\ MockEnd(segs[i]) <= MockEnd(segs[j])

\* ---- properties of teardown and of the backend handshake ----

\* C24 (as claimed): the step that ends the backend handshake enters the
\* audio loop with an opened adapter, opened with language "en" and model
\* "nova-2-general" when the requested language has no Deepgram profile.
C24_OpenFailureFallsBack ==
    [][(pc = "open" /\ pc' # "open")
          => /\ pc' = "recv"
             /\ stt_socket'.opened
             /\ get_stt_service_for_language(language).service # "deepgram"
                   => /\ stt_socket'.language = "en"
                      /\ stt_socket'.model = "nova-2-general"]_vars

\* The handler has left the audio loop through one of its except clauses,
\* or has already closed the connection or finished the adapter.
TeardownBegun ==
    \/ pc \in {"close", "finish", "done"}
    \/ closeCodes # <<>>
    \/ finishCalls > 0

\* C26: once teardown has begun no frame is taken from the connection, no
\* chunk is handed to the adapter and no exception leaves the handler.
C26_NoAudioAfterTeardown ==
    [][TeardownBegun => /\ adapterIn' = adapterIn
                        /\ consumed' = consumed
                        /\ escaped' = FALSE]_vars

C26_Witness ==
    /\ pc = "done"
    /\ finishCalls = 1
    /\ \E i \in 1..Len(inbox) : inbox[i].type = "bytes"
    /\ ~escaped

\* The close with code 1011 was sent, or the handler has seen that the
\* client is gone.
TeardownStarted ==
    \/ closeCodes # <<>>
    \/ connState = "dropped" /\ TeardownBegun

\* C27 (as claimed): after the start of teardown nothing is written to the
\* connection and no send task fails.
C27_NoSendAfterTeardown ==
    [][TeardownStarted
          => /\ sent' = sent
             /\ \A i \in 1..Len(tasks') : tasks'[i].st # "failed"]_vars

\* ---- properties of the identifiers of /v4/listen sessions ----

Started(s) == sessions[s].spc = "live"

\* C25 (as claimed): two sessions never have the same session id, nor the
\* same conversation id.
C25_DistinctSessionIds ==
    \A s, t \in SessionIds :
        (s # t /\ Started(s) /\ Started(t))
            => /\ sessions[s].session_id # sessions[t].session_id
               /\ sessions[s].conversation_id # sessions[t].conversation_id

\* C28 (as claimed): every segment_received message of a session carries
\* the session_id of the session's conversation_started message.
C28_SegmentCarriesSessionId ==
    \A s \in SessionIds :
        \A i, j \in 1..Len(sessions[s].msgs) :
            (sessions[s].msgs[i].event = "conversation_started"
             /\ sessions[s].msgs[j].event = "segment_received")
                => sessions[s].msgs[j].session_id = sessions[s].msgs[i].session_id

\* ---- properties of CONVERSATIONS_STORAGE ----

\* C29 (as claimed): the stored conversations have pairwise distinct ids.
C29_DistinctConversationIds ==
    \A i, j \in 1..Len(CONVERSATIONS_STORAGE) :
        i # j => CONVERSATIONS_STORAGE[i].id # CONVERSATIONS_STORAGE[j].id

Answered(t, code) == reqs[t].rpc = "done" /\ reqs[t].status = code

\* A step that answers request t.
Answers(t, code) == ~Answered(t, code) /\ Answered(t, code)'

\* C30: the storage holds one entry per request answered 200; a step that
\* answers 400 or 500 leaves the storage as it is, a step that answers 200
\* puts the request's conversation at the end, and no other step touches
\* the storage.
C30_StorageAppendOnly ==
    /\ [](Len(CONVERSATIONS_STORAGE) = Cardinality({t \in Threads : Answered(t, 200)}))
    /\ [][/\ \A t \in Threads :
              (Answers(t, 400) \/ Answers(t, 500))
                  => CONVERSATIONS_STORAGE' = CONVERSATIONS_STORAGE
          /\ \A t \in Threads :
              Answers(t, 200)
                  => CONVERSATIONS_STORAGE' =
                        Append(CONVERSATIONS_STORAGE, reqs[t].new_conversation[1])
          /\ (\A t \in Threads : ~Answers(t, 200))
                  => CONVERSATIONS_STORAGE' = CONVERSATIONS_STORAGE]_vars

C30_Witness ==
    /\ Len(CONVERSATIONS_STORAGE) = 1
    /\ \E t, u \in Threads :
          /\ Answered(t, 200)
          /\ Answered(u, 400) \/ Answered(u, 500)

====
